---- MODULE Spec2Model ----
(***************************************************************************)
(* A model of promptmaxx (src/promptmaxx.py): the selection list of the    *)
(* PromptMaxx application, the prompt commands /c and /t, the two-stage    *)
(* generation pipeline started by /p (picker call, editor call) and the    *)
(* file-listing scanner and applier of apply_file_listings.                *)
(*                                                                         *)
(* Text is modelled as a sequence of one-character strings, so that the    *)
(* regular expression of apply_file_listings, str.strip and the payload    *)
(* formatting of call_editor are computed character by character.          *)
(***************************************************************************)
EXTENDS Integers, Sequences, FiniteSets, TLC

VARIABLES
    \* ---- the application (specification Spec) ----
    mounted,      \* on_mount has run
    sel_files,    \* PromptMaxx.sel_files: sequence of Path values
    input_value,  \* the Input widget's value
    fs,           \* the filesystem: path -> [kind, content]
    default_files,\* CFG["default_files"]
    pc,           \* position of the /p handler: Idle, PickingFiles, Editing, Done, Aborted
    files,        \* call_editor's argument: the value call_picker returned
    payload,      \* the "--- FILES ---" payload of the editor message
    log,          \* the lines written to the RichLog
    runs,         \* the number of /p runs started
    \* history of the current /p run
    calls,        \* generation calls issued, in order
    picker_raw,   \* the text the picker call returned
    editor_out,   \* the text the editor call returned
    outcomes,     \* per listing applied: [path, status]
    touched,      \* filesystem mutations made: [op, path]
    fs0,          \* the filesystem when the run started
    exc,          \* the exception raised in the run
    escaped,      \* the exception left the handler uncaught
    pending,      \* /p submissions waiting in the application's message queue
    \* ---- the prompt commands /c and /t (specification PromptSpec) ----
    prompt_cache, \* PromptMaxx.prompt_cache
    clipboard,    \* the system clipboard pyperclip.copy writes
    show_tree,    \* CFG["show_tree_before_files"]
    tree_out,     \* what the tree subprocess of _safe_tree prints
    \* ---- the listing scanner alone (specification ParserSpec) ----
    text,         \* the response text being scanned
    src,          \* how the text was built (a document of items, or free pieces)
    pos,          \* where the next search of finditer starts (1-based)
    matches,      \* the matches found so far: spans and groups
    listings,     \* (fname, content) of each match, as line 367 computes them
    done          \* finditer is exhausted

selVars == <<mounted, sel_files, input_value, default_files>>

runVars == <<pc, files, payload, log, runs, calls, picker_raw, editor_out, outcomes, touched, fs0, exc, escaped>>

promptVars == <<prompt_cache, clipboard, show_tree, tree_out>>

appVars == <<selVars, promptVars, fs, runVars, pending>>

parserVars == <<text, src, pos, matches, listings, done>>

vars == <<appVars, parserVars>>

----------------------------------------------------------------------------
(* Characters and strings                                                  *)

NL == "\n"

\* The backtick. A TLA+ string cannot hold that character, so "~" stands for it;
\* no modelled text holds a tilde.
BT == "~"

SP == " "

Fence == <<BT, BT, BT>>

\* The characters str.strip() removes that occur in the modelled texts.
Whitespace == {SP, NL, "\t", "\r"}

Min(S) == CHOOSE x \in S : \A y \in S : x <= y

Max(S) == CHOOSE x \in S : \A y \in S : x >= y

RECURSIVE Concat(_)
\* "".join(parts)
Concat(parts) == IF parts = <<>> THEN <<>> ELSE Head(parts) \o Concat(Tail(parts))

RECURSIVE JoinWith(_, _)
\* sep.join(parts)
JoinWith(sep, parts) ==
    IF parts = <<>> THEN <<>>
    ELSE IF Len(parts) = 1 THEN parts[1]
    ELSE parts[1] \o sep \o JoinWith(sep, Tail(parts))

\* s.startswith(p)
StartsWith(s, p) == Len(s) >= Len(p) /\ SubSeq(s, 1, Len(p)) = p

\* str.strip(chars), with chars given as a set: drops every leading and every
\* trailing character that is in the set.
StripChars(s, chars) ==
    LET keep == { i \in 1..Len(s) : s[i] \notin chars }
    IN  IF keep = {} THEN <<>> ELSE SubSeq(s, Min(keep), Max(keep))

\* str.strip()
Strip(s) == StripChars(s, Whitespace)

\* str.strip("\n")
StripNL(s) == StripChars(s, {NL})

----------------------------------------------------------------------------
(* The regular expression of apply_file_listings:                          *)
(*     ([^\n]+?)\n```([\s\S]*?)```                                         *)

\* The three backticks start at index i of t.
FenceAt(t, i) == i >= 1 /\ i + 2 <= Len(t) /\ t[i] = BT /\ t[i+1] = BT /\ t[i+2] = BT

\* ([\s\S]*?)``` from index b: the indexes at which the closing backticks can start.
BodyEnds(t, b) == { c \in b..Len(t) : FenceAt(t, c) }

\* A greedy body, [\s\S]*, would run to the last closing fence.
GreedyBodyEnd(t, b) == Max(BodyEnds(t, b))

\* The lazy quantifier *? takes the shortest body: the first closing fence.
BodyEnd(t, b) == Min(BodyEnds(t, b))

\* The index of the first newline of t at or after index s, 0 when there is none.
LineEnd(t, s) ==
    LET nls == { i \in s..Len(t) : t[i] = NL }
    IN  IF nls = {} THEN 0 ELSE Min(nls)

\* ([^\n]+?)\n``` from index s: the indexes e of the newline that can end group 1,
\* for which the rest of the pattern still matches. Group 1 holds no newline and a
\* newline must follow it, so only the first newline after s can end it, and group 1
\* must hold at least one character.
Group1Ends(t, s) ==
    { e \in {LineEnd(t, s)} :
        /\ e > s
        /\ FenceAt(t, e + 1)
        /\ BodyEnds(t, e + 4) # {} }

NoMatch == [found |-> FALSE]

\* A match of the pattern that starts exactly at index s, as a re.Match: the spans
\* of the two groups and the index just past the match.
MatchAt(t, s) ==
    IF Group1Ends(t, s) = {} THEN NoMatch
    ELSE LET e == Min(Group1Ends(t, s))
             c == BodyEnd(t, e + 4)
         IN  [found |-> TRUE, start |-> s, g1s |-> s, g1e |-> e,
              g2s |-> e + 4, g2e |-> c, end |-> c + 3]

\* pattern.search(t, p): the match at the leftmost start index >= p.
Search(t, p) ==
    LET starts == { s \in p..Len(t) : MatchAt(t, s).found }
    IN  IF starts = {} THEN NoMatch ELSE MatchAt(t, Min(starts))

\* match.group(1), match.group(2)
Group1(t, m) == SubSeq(t, m.g1s, m.g1e - 1)

Group2(t, m) == SubSeq(t, m.g2s, m.g2e - 1)

\* Line 367 without the two strip calls.
ListingOfNoStrip(t, m) == [path |-> Group1(t, m), content |-> Group2(t, m)]

\* Line 367: fname, content = match.group(1).strip(), match.group(2).strip("\n")
ListingOf(t, m) == [path |-> Strip(Group1(t, m)), content |-> StripNL(Group2(t, m))]

RECURSIVE FindIter(_, _)
\* pattern.finditer(t) from index p: the non-overlapping matches, left to right.
FindIter(t, p) ==
    LET m == Search(t, p)
    IN  IF m.found THEN <<m>> \o FindIter(t, m.end) ELSE <<>>

\* The listings apply_file_listings iterates over.
ParseListings(t) ==
    LET ms == FindIter(t, 1)
    IN  [i \in 1..Len(ms) |-> ListingOf(t, ms[i])]

----------------------------------------------------------------------------
(* Paths and the filesystem                                                *)

Slash == "/"

\* Path("") and Path(".") are the current directory.
Dot == <<".">>

\* Path.cwd(), with its trailing separator: repo_files yields paths under it.
CwdPrefix == <<Slash, "w", Slash>>

\* Path(s): pathlib turns the empty string into ".".
PathOf(s) == IF s = <<>> THEN Dot ELSE s

\* The path relative to the working directory: the key of the file in fs.
Key(p) ==
    IF StartsWith(p, CwdPrefix) /\ Len(p) > Len(CwdPrefix)
    THEN SubSeq(p, Len(CwdPrefix) + 1, Len(p))
    ELSE p

File(c, m) == [kind |-> "file", content |-> c, mode |-> m]

Dir == [kind |-> "dir"]

\* Path.exists, Path.is_file, Path.is_dir
Exists(f, p) == Key(p) = Dot \/ Key(p) \in DOMAIN f

IsFile(f, p) == Key(p) \in DOMAIN f /\ f[Key(p)].kind = "file"

IsDir(f, p) == Key(p) = Dot \/ (Key(p) \in DOMAIN f /\ f[Key(p)].kind = "dir")

\* Path.parent: the path up to its last separator, "." when it has none.
Parent(p) ==
    LET seps == { i \in 2..Len(p) : p[i] = Slash }
    IN  IF seps = {} THEN Dot ELSE SubSeq(p, 1, Max(seps) - 1)

\* The directory and every directory above it, below the working directory.
Chain(d) ==
    IF d = Dot THEN {}
    ELSE {d} \cup { SubSeq(d, 1, i - 1) : i \in { j \in 2..Len(d) : d[j] = Slash } }

\* Path.mkdir(parents=True, exist_ok=True) raises when the directory or one above
\* it exists and is a file.
MkdirRaises(f, d) == \E x \in Chain(d) : IsFile(f, x)

\* The directories mkdir creates: the missing ones of the chain.
MkdirCreates(f, d) == { x \in Chain(d) : ~Exists(f, x) }

Mkdir(f, d) ==
    [x \in DOMAIN f \cup MkdirCreates(f, d) |-> IF x \in DOMAIN f THEN f[x] ELSE Dir]

\* Path.write_text raises on a directory (IsADirectoryError) and on a file that
\* may not be written (PermissionError).
WriteRaises(f, p) == IsDir(f, p) \/ (IsFile(f, p) /\ f[Key(p)].mode = "ro")

\* A write that leaves a file that already exists as it is.
WriteTextKeep(f, p, c) ==
    [x \in DOMAIN f \cup {Key(p)} |->
        IF x = Key(p) /\ x \notin DOMAIN f THEN File(c, "rw") ELSE f[x]]

WriteText(f, p, c) ==
    [x \in DOMAIN f \cup {Key(p)} |-> IF x = Key(p) THEN File(c, "rw") ELSE f[x]]

\* Path.read_text raises unless the path is a regular file.
ReadRaises(f, p) == ~IsFile(f, p)

ReadText(f, p) == f[Key(p)].content

----------------------------------------------------------------------------
(* Response texts for the scanner                                          *)

\* Paths and file contents that occur in the modelled texts.
PathA == <<"a">>

PathB == <<"b">>

PathDC == <<"d", "/", "c">>

ContX == <<"X">>

ContXY == <<"X", NL, "Y">>

\* A content that starts with a blank line, and one that ends with one.
ContLead == <<NL, "X">>

ContTrail == <<"X", NL>>

\* A content that holds a bare line of three backticks.
ContInner == <<"X", NL>> \o Fence \o <<NL, "Y">>

ListingItem(p, c) == [kind |-> "listing", path |-> p, content |-> c]

ProseItem(l) == [kind |-> "prose", line |-> l]

\* A file listing in the format the editing prompt prescribes (lines 45-49): the
\* path line, the opening fence, the content, the closing fence.
RenderListing(p, c) == p \o <<NL>> \o Fence \o <<NL>> \o c \o <<NL>> \o Fence \o <<NL>>

RenderItem(it) ==
    IF it.kind = "listing" THEN RenderListing(it.path, it.content) ELSE it.line \o <<NL>>

RenderDoc(d) == Concat([i \in 1..Len(d) |-> RenderItem(d[i])])

\* The items a document is made of: listings, and lines of prose (a sentence, a
\* blank line, a line with inline backticks, a path line that no fence follows).
Items ==
    { ListingItem(PathA, <<>>), ListingItem(PathA, ContX), ListingItem(PathDC, ContXY),
      ListingItem(PathA, ContLead), ListingItem(PathB, ContTrail),
      ListingItem(PathB, ContInner),
      ProseItem(<<"h", "i", SP, "a">>), ProseItem(<<>>), ProseItem(<<BT, "x", BT>>),
      ProseItem(PathB) }

MaxItems == 2

MaxPieces == 4

RECURSIVE SeqsUpTo(_, _)
\* The sequences over S of length at most n.
SeqsUpTo(S, n) ==
    IF n = 0 THEN {<<>>}
    ELSE LET shorter == SeqsUpTo(S, n - 1)
         IN  shorter \cup { Append(q, x) : q \in shorter, x \in S }

Docs == SeqsUpTo(Items, MaxItems)

\* Free text: any run of these pieces.
Pieces == { <<"a">>, <<SP>>, <<NL>>, Fence, <<BT>> }

PieceSeqs == SeqsUpTo(Pieces, MaxPieces)

\* The text of section 8 of the specification: "foo/bar.ext\n```\nline1\nline2\n```\n".
FooBarPath == <<"f", "o", "o", "/", "b", "a", "r", ".", "e", "x", "t">>

Line1Line2 == <<"l", "i", "n", "e", "1", NL, "l", "i", "n", "e", "2">>

FooBarText == FooBarPath \o <<NL>> \o Fence \o <<NL>> \o Line1Line2 \o <<NL>> \o Fence \o <<NL>>

\* A listing whose opening fence carries a language tag.
RenderTagged(p, tag, c) ==
    p \o <<NL>> \o Fence \o tag \o <<NL>> \o c \o <<NL>> \o Fence \o <<NL>>

\* A listing of a, text on the line of its closing fence, then a fenced block.
RenderAfter(rest) ==
    PathA \o <<NL>> \o Fence \o <<NL>> \o ContX \o <<NL>> \o Fence \o rest \o <<NL>>
        \o Fence \o <<NL, "Y", NL>> \o Fence \o <<NL>>

\* A listing whose path line holds only the whitespace ws.
RenderBlankPath(ws, c) == RenderListing(ws, c)

Sources ==
    { [kind |-> "doc", doc |-> d] : d \in Docs }
    \cup { [kind |-> "pieces", pieces |-> ps] : ps \in PieceSeqs }
    \cup { [kind |-> "example"] }
    \cup { [kind |-> "tagged", path |-> PathA, tag |-> <<"p", "y">>, content |-> c] :
             c \in {ContX, ContXY} }
    \cup { [kind |-> "after", rest |-> r] : r \in {<<"b">>, <<SP, "b">>, <<>>} }
    \cup { [kind |-> "blankpath", ws |-> w, content |-> ContX] : w \in {<<SP>>, <<SP, "\t">>} }

TextOf(s) ==
    CASE s.kind = "doc" -> RenderDoc(s.doc)
      [] s.kind = "pieces" -> Concat(s.pieces)
      [] s.kind = "tagged" -> RenderTagged(s.path, s.tag, s.content)
      [] s.kind = "after" -> RenderAfter(s.rest)
      [] s.kind = "blankpath" -> RenderBlankPath(s.ws, s.content)
      [] OTHER -> FooBarText

----------------------------------------------------------------------------
(* The scanner alone: pattern.finditer(text), one match per step            *)

\* No value yet (None).
None == [type |-> "NoneType"]

NoExc == [type |-> "none"]

RunIdle ==
    /\ pc = "Idle"
    /\ files = None
    /\ payload = <<>>
    /\ log = <<>>
    /\ runs = 0
    /\ calls = <<>>
    /\ picker_raw = <<>>
    /\ editor_out = <<>>
    /\ outcomes = <<>>
    /\ touched = {}
    /\ fs0 = << >>
    /\ exc = NoExc
    /\ escaped = FALSE
    /\ pending = 0

\* The clipboard before the application has copied anything.
OldClipboard == <<"o", "l", "d">>

\* What tree prints for the working directory; nothing when tree is not installed
\* (line 137).
TreeOutputs == { <<>>, <<".", NL, "a", NL, "b", NL, "d", NL>> }

\* Line 201 and the shipped configuration (line 36).
PromptIdle ==
    /\ prompt_cache = <<>>
    /\ clipboard = OldClipboard
    /\ show_tree = TRUE
    /\ tree_out = <<>>

AppIdle ==
    /\ PromptIdle
    /\ mounted = FALSE
    /\ sel_files = <<>>
    /\ input_value = <<>>
    /\ default_files = <<>>
    /\ fs = << >>
    /\ RunIdle

ParserInit ==
    /\ src \in Sources
    /\ text = TextOf(src)
    /\ pos = 1
    /\ matches = <<>>
    /\ listings = <<>>
    /\ done = FALSE
    /\ AppIdle

\* One iteration of "for match in pattern.finditer(text)" up to line 367.
ScanNext ==
    /\ ~done
    /\ Search(text, pos).found
    /\ LET m == Search(text, pos)
       IN  /\ matches' = Append(matches, m)
           /\ listings' = Append(listings, ListingOf(text, m))
           /\ pos' = m.end
    /\ UNCHANGED <<text, src, done, appVars>>

\* finditer finds no further match: the loop ends.
ScanEnd ==
    /\ ~done
    /\ ~Search(text, pos).found
    /\ done' = TRUE
    /\ UNCHANGED <<text, src, pos, matches, listings, appVars>>

ParserNext == ScanNext \/ ScanEnd

ParserSpec == ParserInit /\ [][ParserNext]_vars

----------------------------------------------------------------------------
(* The selection list: on_mount, on_input_changed, run_cmd /a and /r        *)

InSeq(x, q) == \E i \in 1..Len(q) : q[i] = x

RECURSIVE SplitWs(_)
\* shlex.split(s) for a text without quotes or escapes: its whitespace-separated words.
SplitWs(s) ==
    IF s = <<>> THEN <<>>
    ELSE IF s[1] \in Whitespace THEN SplitWs(Tail(s))
    ELSE LET ws == { i \in 1..Len(s) : s[i] \in Whitespace }
             e == IF ws = {} THEN Len(s) + 1 ELSE Min(ws)
         IN  <<SubSeq(s, 1, e - 1)>> \o SplitWs(SubSeq(s, e, Len(s)))

\* list.remove(x): the list without the first occurrence of x.
RemoveFirst(q, x) ==
    LET at == Min({ i \in 1..Len(q) : q[i] = x })
    IN  SubSeq(q, 1, at - 1) \o SubSeq(q, at + 1, Len(q))

\* The order in which rglob("*") lists the paths of the tree.
PathOrder == <<PathA, PathB, <<"d">>, PathDC, <<"n">>>>

\* repo_files(): the regular files below the working directory, as absolute paths.
\* The tree holds no .maxxignore and no .gitignore, so no pattern filters them.
RepoFiles(f) ==
    LET isFile(p) == IsFile(f, p)
        found == SelectSeq(PathOrder, isFile)
    IN  [i \in 1..Len(found) |-> CwdPrefix \o found[i]]

\* on_input_changed accepts p.is_file(), run_cmd accepts p.exists().
Accepts(f, p, test) == IF test = "is_file" THEN IsFile(f, p) ELSE Exists(f, p)

RECURSIVE AddEach(_, _, _, _)
\* for f in args: p = Path(f); if test(p) and p not in sel_files: sel_files.append(p)
AddEach(sel, args, f, test) ==
    IF args = <<>> THEN sel
    ELSE LET p == PathOf(Head(args))
             next == IF Accepts(f, p, test) /\ ~InSeq(p, sel) THEN Append(sel, p) ELSE sel
         IN  AddEach(next, Tail(args), f, test)

\* Lines 231-234: every default file that exists is appended.
MountFiles(sel, defaults, f) ==
    LET exists(x) == Exists(f, PathOf(x))
    IN  sel \o SelectSeq(defaults, exists)

\* A removal that drops only the first listed entry it meets (list.remove).
RemoveOnce(sel, words) ==
    LET hit == { i \in 1..Len(sel) : InSeq(sel[i], words) }
    IN  IF hit = {} THEN sel
        ELSE SubSeq(sel, 1, Min(hit) - 1) \o SubSeq(sel, Min(hit) + 1, Len(sel))

\* Lines 254-255 and 289-290: the entries whose string form is not in rem.
Remove(sel, words) ==
    LET keep(p) == ~InSeq(p, words)
    IN  SelectSeq(sel, keep)

\* Lines 258-261: the arguments of /a, with "." replaced by the files of the tree.
ExpandArgs(args, f) ==
    IF InSeq(Dot, args) THEN RemoveFirst(args, Dot) \o RepoFiles(f) ELSE args

CmdA == <<Slash, "a", SP>>

CmdR == <<Slash, "r", SP>>

CmdP == <<Slash, "p">>

\* The texts the user enters.
InputTexts ==
    { CmdA \o PathA, CmdA \o PathB, CmdA \o Dot, CmdA \o <<"d", SP, "a">>,
      CmdA \o <<"n">>, CmdR \o PathA, CmdR \o <<"b", SP, "d">> }

\* The configured default files: the shipped default names one file; a user's
\* configuration may name a file twice, or a file that does not exist.
DefaultFileLists == { <<PathA>>, <<PathA, PathB>>, <<PathA, PathA>>, <<<<"n">>, PathB>> }

\* The tree at start: a and b are files (b may not be written), d is a directory.
InitFs == (PathA :> File(ContX, "rw")) @@ (PathB :> File(<<"Y">>, "ro")) @@ (<<"d">> :> Dir)

\* The trees the selection handlers are run on: the tree at start, and trees in
\* which an earlier /p run has created the file n or rewritten a.
Trees ==
    { InitFs,
      InitFs @@ (<<"n">> :> File(ContXY, "rw")),
      (PathA :> File(<<"Z">>, "rw")) @@ InitFs }

\* A handler that starts the command as a task of its own and returns at once:
\* the next message is handled while the command still runs.
HandlerFreeDetached == ~escaped

\* No handler of the application is running and none has crashed.
HandlerFree == pc \in {"Idle", "Done", "Aborted"} /\ ~escaped

\* on_mount
OnMount ==
    /\ ~mounted
    /\ mounted' = TRUE
    /\ sel_files' = MountFiles(sel_files, default_files, fs)
    /\ UNCHANGED <<input_value, default_files, fs, runVars, promptVars, pending, parserVars>>

\* on_input_changed(ev) with ev.value = t
InputChanged(t) ==
    /\ input_value' = t
    /\ sel_files' =
          IF StartsWith(t, CmdR)
          THEN Remove(sel_files, SplitWs(SubSeq(t, 4, Len(t))))
          ELSE IF StartsWith(t, CmdA)
          THEN AddEach(sel_files, ExpandArgs(SplitWs(SubSeq(t, 4, Len(t))), fs), fs, "is_file")
          ELSE sel_files

OnInputChanged ==
    /\ mounted
    /\ HandlerFree
    /\ \E t \in InputTexts : InputChanged(t)
    /\ UNCHANGED <<mounted, default_files, fs, runVars, promptVars, pending, parserVars>>

\* on_input_submitted -> run_cmd for /a and /r (lines 240-247, 282-291)
OnSubmitSelection ==
    /\ mounted
    /\ HandlerFree
    /\ LET txt == Strip(input_value)
       IN  /\ StartsWith(txt, CmdA) \/ StartsWith(txt, CmdR)
           /\ sel_files' =
                 IF StartsWith(txt, CmdA)
                 THEN AddEach(sel_files, SplitWs(SubSeq(txt, 4, Len(txt))), fs, "exists")
                 ELSE Remove(sel_files, SplitWs(SubSeq(txt, 4, Len(txt))))
    /\ input_value' = <<>>
    /\ UNCHANGED <<mounted, default_files, fs, runVars, promptVars, pending, parserVars>>

----------------------------------------------------------------------------
(* The applier: the loop body of apply_file_listings, lines 368-373        *)

\* One listing applied to filesystem f: the parent directories are made, then the
\* file is written; any exception of either step is caught and shown.
ApplyOne(f, l) ==
    LET p == PathOf(l.path)
        d == Parent(p)
        made == { [op |-> "mkdir", path |-> x] : x \in MkdirCreates(f, d) }
    IN  IF MkdirRaises(f, d)
        THEN [fs |-> f, status |-> "failed", ops |-> {}]
        ELSE IF WriteRaises(Mkdir(f, d), p)
        THEN [fs |-> Mkdir(f, d), status |-> "failed", ops |-> made]
        ELSE [fs |-> WriteText(Mkdir(f, d), p, l.content), status |-> "written",
              ops |-> made \cup {[op |-> "write", path |-> Key(p)]}]

\* The line the loop body writes to the log.
OutcomeLine(l, status) ==
    IF status = "written" THEN [tag |-> "Updated", fname |-> l.path]
    ELSE [tag |-> "ERROR", exc |-> [type |-> "OSError", fname |-> l.path]]

RECURSIVE ApplyAllAbort(_, _)
\* A loop without the try/except: the first failure ends it.
ApplyAllAbort(f, ls) ==
    IF ls = <<>> THEN [fs |-> f, outcomes |-> <<>>, ops |-> {}, lines |-> <<>>]
    ELSE LET one == ApplyOne(f, Head(ls))
             rest == IF one.status = "failed"
                     THEN [fs |-> one.fs, outcomes |-> <<>>, ops |-> {}, lines |-> <<>>]
                     ELSE ApplyAllAbort(one.fs, Tail(ls))
         IN  [fs |-> rest.fs,
              outcomes |-> <<[path |-> Head(ls).path, status |-> one.status]>> \o rest.outcomes,
              ops |-> one.ops \cup rest.ops,
              lines |-> <<OutcomeLine(Head(ls), one.status)>> \o rest.lines]

RECURSIVE ApplyAll(_, _)
\* The loop of apply_file_listings over the listings ls, from filesystem f: the
\* filesystem after it, one outcome and one log line per listing.
ApplyAll(f, ls) ==
    IF ls = <<>> THEN [fs |-> f, outcomes |-> <<>>, ops |-> {}, lines |-> <<>>]
    ELSE LET one == ApplyOne(f, Head(ls))
             rest == ApplyAll(one.fs, Tail(ls))
         IN  [fs |-> rest.fs,
              outcomes |-> <<[path |-> Head(ls).path, status |-> one.status]>> \o rest.outcomes,
              ops |-> one.ops \cup rest.ops,
              lines |-> <<OutcomeLine(Head(ls), one.status)>> \o rest.lines]

----------------------------------------------------------------------------
(* The pipeline of /p: handle_paste, call_picker, call_editor               *)

PyStr(v) == [type |-> "str", val |-> v]

PyInt(n) == [type |-> "int", val |-> n]

PyList(items) == [type |-> "list", items |-> items]

PyDict(keys) == [type |-> "dict", keys |-> keys]

\* The texts the picker call returns.
PickerRaws ==
    { "not json", "['a']", "[]", "[\"a\"]", "[\"n\", \"a\"]", "[\"b\", \"d\"]",
      "\"ab\"", "{\"a\": 1}", "5", "null", "[1]" }

Loaded(v) == [ok |-> TRUE, value |-> v]

\* A parser that answers an empty list where json.loads raises.
JsonLoadsLenient(raw) ==
    CASE raw = "[\"a\"]" -> Loaded(PyList(<<PyStr(PathA)>>))
      [] OTHER -> Loaded(PyList(<<>>))

\* json.loads(raw) on the texts of PickerRaws: the value, or ok = FALSE where it
\* raises JSONDecodeError.
JsonLoads(raw) ==
    CASE raw = "[]" -> Loaded(PyList(<<>>))
      [] raw = "[\"a\"]" -> Loaded(PyList(<<PyStr(PathA)>>))
      [] raw = "[\"n\", \"a\"]" -> Loaded(PyList(<<PyStr(<<"n">>), PyStr(PathA)>>))
      [] raw = "[\"b\", \"d\"]" -> Loaded(PyList(<<PyStr(PathB), PyStr(<<"d">>)>>))
      [] raw = "\"ab\"" -> Loaded(PyStr(<<"a", "b">>))
      [] raw = "{\"a\": 1}" -> Loaded(PyDict(<<PyStr(PathA)>>))
      [] raw = "5" -> Loaded(PyInt(5))
      [] raw = "null" -> Loaded(None)
      [] raw = "[1]" -> Loaded(PyList(<<PyInt(1)>>))
      [] OTHER -> [ok |-> FALSE]

\* iter(v): a list yields its items, a str its characters, a dict its keys; any
\* other value raises TypeError.
Iterable(v) == v.type \in {"list", "str", "dict"}

IterItems(v) ==
    CASE v.type = "list" -> v.items
      [] v.type = "str" -> [i \in 1..Len(v.val) |-> PyStr(<<v.val[i]>>)]
      [] v.type = "dict" -> v.keys

\* Line 346 raises TypeError when files cannot be iterated or Path(f) is given a
\* value that is no string.
PayloadRaises(v) ==
    \/ ~Iterable(v)
    \/ \E i \in 1..Len(IterItems(v)) : IterItems(v)[i].type # "str"

\* The inner read_text of call_editor: the text of the file, "" when reading raises.
ReadOrEmpty(f, p) == IF ReadRaises(f, p) THEN <<>> ELSE ReadText(f, p)

\* f"### {f}\n{read_text(f)}"
PayloadEntry(f, name) == <<"#", "#", "#", SP>> \o name \o <<NL>> \o ReadOrEmpty(f, PathOf(name))

\* Line 346: the files the payload has an entry for, "for f in files if Path(f).exists()".
PayloadFiles(v, f) ==
    LET exists(x) == Exists(f, PathOf(x))
    IN  SelectSeq([i \in 1..Len(IterItems(v)) |-> IterItems(v)[i].val], exists)

\* Line 346: "\n\n".join(...)
Payload(v, f) ==
    LET names == PayloadFiles(v, f)
    IN  JoinWith(<<NL, NL>>, [i \in 1..Len(names) |-> PayloadEntry(f, names[i])])

\* Loading the contents creates every missing file.
FsAfterLoadTouch(f, v) ==
    LET missing == { IterItems(v)[i].val : i \in { j \in 1..Len(IterItems(v)) :
                                                    ~Exists(f, PathOf(IterItems(v)[j].val)) } }
    IN  [x \in DOMAIN f \cup missing |-> IF x \in DOMAIN f THEN f[x] ELSE File(<<>>, "rw")]

\* The filesystem after lines 341-346: exists() and read_text() change nothing.
FsAfterLoad(f, v) == f

TransportError(stage) == [type |-> "TransportError", stage |-> stage]

\* The texts the editor call returns: listings and prose in the prescribed format.
PathEC == <<"e", "/", "c">>

PathAX == <<"a", "/", "x">>

EditorDocs ==
    { <<ListingItem(PathA, <<"Z">>)>>,
      <<ListingItem(PathB, <<"Z">>), ListingItem(<<"n">>, ContXY)>>,
      <<ProseItem(<<"h", "i", SP, "a">>)>>,
      <<ListingItem(PathEC, ContX)>>,
      <<ProseItem(<<"o", "k">>), ListingItem(PathAX, ContX), ListingItem(<<"d">>, ContX),
        ListingItem(PathA, <<"Y">>)>>,
      <<ListingItem(PathB, <<"Z">>), ListingItem(<<"d">>, ContX)>>,
      <<ListingItem(<<"n">>, ContX), ListingItem(PathB, <<"Z">>), ListingItem(<<"n">>, ContXY)>> }

EditorOutputs == { RenderDoc(d) : d \in EditorDocs }

\* pattern.finditer on each of these texts (line 366), computed once.
Parsed == [out \in EditorOutputs |-> ParseListings(out)]

MaxRuns == 2

\* on_input_submitted("/p") -> run_cmd -> handle_paste -> call_picker, up to the
\* await of the picker call (lines 240-247, 298-299, 312-331).
StartPaste ==
    /\ input_value' = <<>>
    /\ runs' = runs + 1
    /\ log' = Append(log, [tag |-> "Pasted"])
    /\ calls' = <<"picker">>
    /\ pc' = "PickingFiles"
    /\ files' = None
    /\ payload' = <<>>
    /\ picker_raw' = <<>>
    /\ editor_out' = <<>>
    /\ outcomes' = <<>>
    /\ touched' = {}
    /\ fs0' = fs
    /\ exc' = NoExc
    /\ UNCHANGED <<mounted, sel_files, default_files, fs, escaped, promptVars, parserVars>>

\* "/p" is submitted while no handler runs: the handler starts at once. Messages
\* are handled in arrival order, so none is waiting.
SubmitPaste ==
    /\ mounted
    /\ HandlerFree
    /\ pending = 0
    /\ Strip(input_value) = CmdP
    /\ runs < MaxRuns
    /\ StartPaste
    /\ UNCHANGED pending

\* "/p" is typed and submitted while on_input_submitted awaits a generation call
\* (lines 247, 299, 315, 319): the message waits in the application's queue.
SubmitWhileRunning ==
    /\ mounted
    /\ pc \in {"PickingFiles", "Editing"}
    /\ ~escaped
    /\ runs + pending < MaxRuns
    /\ pending' = pending + 1
    /\ UNCHANGED <<selVars, promptVars, fs, runVars, parserVars>>

\* The handler has returned: the waiting "/p" is handled.
SubmitQueued ==
    /\ mounted
    /\ HandlerFree
    /\ pending > 0
    /\ pending' = pending - 1
    /\ StartPaste

\* The except branch of handle_paste (lines 316-318): the exception is shown and
\* the run ends.
PickerFails(e) ==
    /\ exc' = e
    /\ log' = Append(log, [tag |-> "ERROR", exc |-> e])
    /\ pc' = "Aborted"
    /\ UNCHANGED <<files, payload, calls, outcomes, touched, escaped, fs>>

\* The picker call raises (lines 323-331).
PickerRaises ==
    /\ pc = "PickingFiles"
    /\ PickerFails(TransportError("picker"))
    /\ UNCHANGED <<selVars, runs, picker_raw, editor_out, fs0, promptVars, pending, parserVars>>

\* call_editor up to the await of the editor call (lines 341-359).
CallEditor(v, log1) ==
    /\ files' = v
    /\ IF PayloadRaises(v)
       THEN /\ exc' = [type |-> "TypeError"]
            /\ escaped' = TRUE
            /\ pc' = "Aborted"
            /\ log' = log1
            /\ UNCHANGED <<payload, calls, fs>>
       ELSE /\ payload' = Payload(v, fs)
            /\ fs' = FsAfterLoad(fs, v)
            /\ log' = Append(log1, [tag |-> "Messages", payload |-> Payload(v, fs)])
            /\ calls' = Append(calls, "editor")
            /\ pc' = "Editing"
            /\ UNCHANGED <<exc, escaped>>
    /\ UNCHANGED <<outcomes, touched>>

\* The picker call returns raw (lines 332-338), then handle_paste goes on.
PickerReturns ==
    /\ pc = "PickingFiles"
    /\ \E raw \in PickerRaws :
          /\ picker_raw' = <<raw>>
          /\ IF JsonLoads(raw).ok
             THEN CallEditor(JsonLoads(raw).value,
                             Append(log, [tag |-> "PickerChose", picked |-> JsonLoads(raw).value]))
             ELSE PickerFails([type |-> "ValueError", raw |-> raw])
    /\ UNCHANGED <<selVars, runs, editor_out, fs0, promptVars, pending, parserVars>>

\* The editor call raises: nothing in call_editor, handle_paste, run_cmd or
\* on_input_submitted catches it.
EditorRaises ==
    /\ pc = "Editing"
    /\ exc' = TransportError("editor")
    /\ escaped' = TRUE
    /\ pc' = "Aborted"
    /\ UNCHANGED <<selVars, fs, files, payload, log, runs, calls, picker_raw, editor_out,
                   outcomes, touched, fs0, promptVars, pending, parserVars>>

\* A run that counts a failed write, or a response without listings, as a failure
\* of the run.
EditorReturnsStrict ==
    /\ pc = "Editing"
    /\ \E out \in EditorOutputs :
          LET r == ApplyAll(fs, Parsed[out])
              bad == r.outcomes = <<>> \/ \E i \in 1..Len(r.outcomes) : r.outcomes[i].status = "failed"
          IN  /\ editor_out' = <<out>>
              /\ fs' = r.fs
              /\ outcomes' = r.outcomes
              /\ touched' = r.ops
              /\ log' = Append(log, [tag |-> "Output", text |-> out]) \o r.lines
              /\ pc' = IF bad THEN "Aborted" ELSE "Done"
    /\ UNCHANGED <<selVars, files, payload, runs, calls, picker_raw, fs0, exc, escaped, promptVars, pending, parserVars>>

\* The editor call returns out (lines 360-362), and apply_file_listings runs.
EditorReturns ==
    /\ pc = "Editing"
    /\ \E out \in EditorOutputs :
          LET r == ApplyAll(fs, Parsed[out])
          IN  /\ editor_out' = <<out>>
              /\ fs' = r.fs
              /\ outcomes' = r.outcomes
              /\ touched' = r.ops
              /\ log' = Append(log, [tag |-> "Output", text |-> out]) \o r.lines
    /\ pc' = "Done"
    /\ UNCHANGED <<selVars, files, payload, runs, calls, picker_raw, fs0, exc, escaped, promptVars, pending, parserVars>>

\* on_input_changed("/p"): the user types the command (lines 267-270 change
\* nothing but the suggestions of the input widget).
TypePaste ==
    /\ mounted
    /\ HandlerFree
    /\ pending = 0
    /\ runs < MaxRuns
    /\ InputChanged(CmdP)
    /\ UNCHANGED <<mounted, default_files, fs, runVars, promptVars, pending, parserVars>>

ParserIdle ==
    /\ text = <<>>
    /\ src = [kind |-> "none"]
    /\ pos = 1
    /\ matches = <<>>
    /\ listings = <<>>
    /\ done = TRUE

\* The application after construction, with the shipped default configuration
\* (one default file, which exists).
Init ==
    /\ mounted = FALSE
    /\ sel_files = <<>>
    /\ input_value = <<>>
    /\ default_files = <<PathA>>
    /\ fs = InitFs
    /\ PromptIdle
    /\ RunIdle
    /\ ParserIdle

Next ==
    \/ OnMount
    \/ TypePaste
    \/ SubmitPaste
    \/ SubmitWhileRunning
    \/ SubmitQueued
    \/ PickerRaises
    \/ PickerReturns
    \/ EditorRaises
    \/ EditorReturns

\* The /p pipeline of the mounted application.
Spec == Init /\ [][Next]_vars

\* The selection handlers alone. They read the filesystem and never the state of a
\* /p run, and a /p run never reads sel_files, so they are run on each tree.
SelectionInit ==
    /\ mounted = FALSE
    /\ sel_files = <<>>
    /\ input_value = <<>>
    /\ default_files \in DefaultFileLists
    /\ fs \in Trees
    /\ PromptIdle
    /\ RunIdle
    /\ ParserIdle

SelectionNext == OnMount \/ OnInputChanged \/ OnSubmitSelection

SelectionSpec == SelectionInit /\ [][SelectionNext]_vars

----------------------------------------------------------------------------
(* The prompt commands: build_prompt, /t and /c                            *)

\* CFG["prompt_prefix"] (line 37): "Here are the files in my folder:\n"
PromptPrefix ==
    <<"H", "e", "r", "e", SP, "a", "r", "e", SP, "t", "h", "e", SP, "f", "i", "l",
      "e", "s", SP, "i", "n", SP, "m", "y", SP, "f", "o", "l", "d", "e", "r", ":",
      NL>>

CmdC == <<Slash, "c">>

CmdT == <<Slash, "t">>

\* _safe_tree(): the output of the tree subprocess, "" when there is none.
SafeTree(out) == out

\* f"\n### {p} ###\n{p.read_text()}"
Block(f, p) ==
    <<NL, "#", "#", "#", SP>> \o p \o <<SP, "#", "#", "#", NL>> \o ReadText(f, p)

\* A rendering that leaves out the entries it cannot read.
BuildPromptSkipping(sel, f, show, out) ==
    LET readable(p) == ~ReadRaises(f, p)
        ok == SelectSeq(sel, readable)
    IN  [ok |-> TRUE,
         text |-> PromptPrefix \o (IF show THEN SafeTree(out) ELSE <<>>)
                  \o Concat([i \in 1..Len(ok) |-> Block(f, ok[i])])]

\* A rendering that puts the tree after the file blocks.
BuildPromptTreeLast(sel, f, show, out) ==
    LET bad == { i \in 1..Len(sel) : ReadRaises(f, sel[i]) }
    IN  IF bad # {}
        THEN [ok |-> FALSE, exc |-> [type |-> "OSError", path |-> sel[Min(bad)]]]
        ELSE [ok |-> TRUE,
              text |-> PromptPrefix \o Concat([i \in 1..Len(sel) |-> Block(f, sel[i])])
                       \o (IF show THEN SafeTree(out) ELSE <<>>)]

\* build_prompt(): the prefix, the tree when it is shown, one block per entry of
\* sel_files in list order; the read_text of the first entry that cannot be read
\* raises, and nothing is returned.
BuildPrompt(sel, f, show, out) ==
    LET bad == { i \in 1..Len(sel) : ReadRaises(f, sel[i]) }
    IN  IF bad # {}
        THEN [ok |-> FALSE, exc |-> [type |-> "OSError", path |-> sel[Min(bad)]]]
        ELSE [ok |-> TRUE,
              text |-> PromptPrefix \o (IF show THEN SafeTree(out) ELSE <<>>)
                       \o Concat([i \in 1..Len(sel) |-> Block(f, sel[i])])]

MaxLog == 2

MaxSel == 2

\* on_input_changed("/c"), on_input_changed("/t"): the user types the command.
TypePrompt ==
    /\ mounted
    /\ HandlerFree
    /\ \E t \in {CmdC, CmdT} : InputChanged(t)
    /\ UNCHANGED <<mounted, default_files, fs, runVars, promptVars, pending, parserVars>>

\* on_input_submitted("/c") -> run_cmd (lines 240-247, 294-297). An exception of
\* build_prompt is caught nowhere: it leaves the handler from line 295.
SubmitCopy ==
    /\ mounted
    /\ HandlerFree
    /\ Strip(input_value) = CmdC
    /\ Len(log) < MaxLog
    /\ input_value' = <<>>
    /\ LET r == BuildPrompt(sel_files, fs, show_tree, tree_out)
       IN  IF r.ok
           THEN /\ prompt_cache' = r.text
                /\ clipboard' = r.text
                /\ log' = Append(log, [tag |-> "Copied"])
                /\ UNCHANGED <<exc, escaped>>
           ELSE /\ exc' = [type |-> "OSError", path |-> r.exc.path, line |-> 295]
                /\ escaped' = TRUE
                /\ UNCHANGED <<prompt_cache, clipboard, log>>
    /\ UNCHANGED <<mounted, sel_files, default_files, fs, show_tree, tree_out, pc, files,
                   payload, runs, calls, picker_raw, editor_out, outcomes, touched, fs0,
                   pending, parserVars>>

\* on_input_submitted("/t") -> run_cmd (lines 240-247, 292-293): the log line
\* shows est_tokens of the prompt.
SubmitTokens ==
    /\ mounted
    /\ HandlerFree
    /\ Strip(input_value) = CmdT
    /\ Len(log) < MaxLog
    /\ input_value' = <<>>
    /\ LET r == BuildPrompt(sel_files, fs, show_tree, tree_out)
       IN  IF r.ok
           THEN /\ log' = Append(log, [tag |-> "Tokens", of |-> r.text])
                /\ UNCHANGED <<exc, escaped>>
           ELSE /\ exc' = [type |-> "OSError", path |-> r.exc.path, line |-> 293]
                /\ escaped' = TRUE
                /\ UNCHANGED log
    /\ UNCHANGED <<mounted, sel_files, default_files, fs, promptVars, pc, files,
                   payload, runs, calls, picker_raw, editor_out, outcomes, touched, fs0,
                   pending, parserVars>>

\* The paths a selection list holds: files, a directory (added by the submit
\* handler), a file that has since been deleted, an absolute path (added by "/a .").
SelPaths == { PathA, PathB, <<"d">>, <<"n">>, CwdPrefix \o PathA }

\* The selection lists the prompt is built from.
Selections ==
    { q \in SeqsUpTo(SelPaths, MaxSel) :
        \A i \in 1..Len(q) : \A j \in 1..Len(q) : i # j => q[i] # q[j] }

\* The prompt commands on a mounted application, for each selection list, each
\* tree, with and without the tree listing.
PromptInit ==
    /\ mounted = TRUE
    /\ sel_files \in Selections
    /\ input_value = <<>>
    /\ default_files = <<PathA>>
    /\ fs \in Trees
    /\ prompt_cache = <<>>
    /\ clipboard = OldClipboard
    /\ show_tree \in BOOLEAN
    /\ tree_out \in TreeOutputs
    /\ RunIdle
    /\ ParserIdle

PromptNext == TypePrompt \/ SubmitCopy \/ SubmitTokens

PromptSpec == PromptInit /\ [][PromptNext]_vars

----------------------------------------------------------------------------
(* Properties of the scanner (ParserSpec)                                  *)

IsListing(it) == it.kind = "listing"

\* The (path, content) pairs a document was rendered from, in document order.
DocListings(d) ==
    LET ls == SelectSeq(d, IsListing)
    IN  [i \in 1..Len(ls) |-> [path |-> ls[i].path, content |-> ls[i].content]]

HasFence(c) == \E i \in 1..Len(c) : FenceAt(c, i)

\* No listing of the document holds three backticks in its content.
FenceFree(d) == \A i \in 1..Len(d) : IsListing(d[i]) => ~HasFence(d[i].content)

\* The content neither starts nor ends with a newline.
TrimStable(c) == c = <<>> \/ (c[1] # NL /\ c[Len(c)] # NL)

\* C7: the scanner yields the listings of the text in document order and without
\* deduplication. For every document of prose lines and listings in the prescribed
\* format (contents free of fences), the scan yields one listing per listing of the
\* document, in the document's order, with the document's paths, and with the
\* document's content wherever that content has no blank first or last line; prose
\* and path lines that no fence follows yield nothing. The text
\* "foo/bar.ext\n```\nline1\nline2\n```\n" yields exactly the listing
\* (foo/bar.ext, "line1\nline2"). Matches never overlap and are in text order.
C7_ListingsInDocumentOrder ==
    /\ \A i \in 1..Len(matches) : \A j \in 1..Len(matches) :
          i < j => matches[i].end <= matches[j].start
    /\ (done /\ src.kind = "example") =>
          listings = <<[path |-> FooBarPath, content |-> Line1Line2]>>
    /\ (done /\ src.kind = "doc" /\ FenceFree(src.doc)) =>
          LET want == DocListings(src.doc)
          IN  /\ Len(listings) = Len(want)
              /\ \A i \in 1..Len(want) :
                    /\ listings[i].path = want[i].path
                    /\ TrimStable(want[i].content) => listings[i].content = want[i].content

\* C7 witness: two listings rendered back to back, both found, in order; the two
\* name the same path with the same content (nothing is deduplicated).
C7_Witness ==
    /\ done
    /\ src.kind = "doc"
    /\ src.doc = <<ListingItem(PathA, ContX), ListingItem(PathA, ContX)>>
    /\ Len(listings) = 2
    /\ listings[1] = listings[2]

\* C8: the content of a parsed listing is the text between the opening-fence line
\* and the closing fence, less the one newline before the closing fence: for every
\* document of listings in the prescribed format, each parsed content equals the
\* content the listing was rendered from, blank first and last lines included.
C8_ContentVerbatim ==
    (done /\ src.kind = "doc" /\ FenceFree(src.doc)) =>
        LET want == DocListings(src.doc)
        IN  \A i \in 1..Len(want) :
                i <= Len(listings) => listings[i].content = want[i].content

\* The number of listings among the first n items of d.
ListingsBefore(d, n) == Len(DocListings(SubSeq(d, 1, n)))

\* C9: the body of a match ends at the first run of three backticks after the
\* opening fence (no fence starts inside the body, one starts right after it), and
\* the content is that body less its leading and trailing newlines. A listing
\* rendered from the content "X\n```\nY" is therefore parsed with the content "X",
\* the lines before the inner fence.
C9_FirstFenceEndsBody ==
    /\ \A k \in 1..Len(matches) :
          /\ FenceAt(text, matches[k].g2e)
          /\ \A c \in matches[k].g2s..(matches[k].g2e - 1) : ~FenceAt(text, c)
          /\ listings[k].content = StripNL(SubSeq(text, matches[k].g2s, matches[k].g2e - 1))
    /\ (done /\ src.kind = "doc") =>
          \A j \in 1..Len(src.doc) :
              ( /\ IsListing(src.doc[j])
                /\ src.doc[j].content = ContInner
                /\ FenceFree(SubSeq(src.doc, 1, j - 1)) ) =>
              LET k == ListingsBefore(src.doc, j)
              IN  /\ k <= Len(listings)
                  /\ listings[k] = [path |-> src.doc[j].path, content |-> ContX]

\* C9 witness: a listing whose content holds a bare fence line has been scanned and
\* its content is cut at that line.
C9_Witness ==
    /\ done
    /\ src.kind = "doc"
    /\ src.doc = <<ListingItem(PathB, ContInner)>>
    /\ Len(listings) >= 1
    /\ listings[1].content = ContX

\* C15: a language tag after the opening fence is ignored: a listing with a tag
\* is parsed exactly as the same listing with a bare opening fence, so the tag
\* never shows up in the content.
C15_LanguageTagIgnored ==
    (done /\ src.kind = "tagged") =>
        listings = ParseListings(RenderListing(src.path, src.content))

\* C16: a candidate whose path line is empty after trimming is rejected: the scan
\* yields no listing with an empty path (so none is written and none has an
\* outcome).
C16_EmptyPathRejected == \A k \in 1..Len(listings) : listings[k].path # <<>>

\* C17: the closing fence takes the rest of its line: every match starts at the
\* start of a line, so text after the closing backticks of one listing is never
\* (part of) the path line of the next.
C17_ClosingFenceTakesLine ==
    \A k \in 1..Len(matches) :
        matches[k].start = 1 \/ text[matches[k].start - 1] = NL

----------------------------------------------------------------------------
(* Properties of the selection list (SelectionSpec)                        *)

\* C1: sel_files never holds the same path twice, after on_mount and after any
\* sequence of /a, /a . and /r through the keystroke and the submit handler.
C1_NoDuplicatePath ==
    \A i \in 1..Len(sel_files) : \A j \in 1..Len(sel_files) :
        i # j => sel_files[i] # sel_files[j]

\* The words after the three characters of the command ("/r ", "/a ").
ArgWords(t) == { SplitWs(SubSeq(t, 4, Len(t)))[i] : i \in 1..Len(SplitWs(SubSeq(t, 4, Len(t)))) }

\* q holds exactly the entries of sel whose string form is not in S, in the order
\* they have in sel: the k-th entry of q is the k-th entry of sel that is kept.
LeavesOthers(sel, S, q) ==
    LET kept == { i \in 1..Len(sel) : sel[i] \notin S }
    IN  /\ Len(q) = Cardinality(kept)
        /\ \A i \in kept : q[Cardinality({ j \in kept : j <= i })] = sel[i]

\* A step of the keystroke handler on a /r text, and of the submit handler on one.
RemoveTyped == StartsWith(input_value', CmdR)

RemoveSubmitted == input_value' = <<>> /\ StartsWith(Strip(input_value), CmdR)

\* C11: remove(S), through the keystroke handler and through the submit handler,
\* leaves exactly the previous entries whose string form is not in S, in their
\* previous relative order; when no entry matches S the list is unchanged; no error
\* is raised.
C11_RemoveLeavesOthers ==
    [][ /\ RemoveTyped =>
              /\ LeavesOthers(sel_files, ArgWords(input_value'), sel_files')
              /\ (\A i \in 1..Len(sel_files) : sel_files[i] \notin ArgWords(input_value'))
                    => sel_files' = sel_files
              /\ ~escaped'
        /\ RemoveSubmitted =>
              /\ LeavesOthers(sel_files, ArgWords(Strip(input_value)), sel_files')
              /\ (\A i \in 1..Len(sel_files) : sel_files[i] \notin ArgWords(Strip(input_value)))
                    => sel_files' = sel_files
              /\ ~escaped' ]_vars

\* C11 witness: a and b were selected at mount, "/r b d" was typed, and a is what
\* is left.
C11_Witness ==
    /\ mounted
    /\ default_files = <<PathA, PathB>>
    /\ input_value = CmdR \o <<"b", SP, "d">>
    /\ sel_files = <<PathA>>

\* C20: the keystroke handler and the submit handler of /a accept the same
\* candidates, so every entry of sel_files is a regular file, never a directory:
\* what the keystroke handler turned down the submit handler does not add.
C20_EntriesAreRegularFiles ==
    \A i \in 1..Len(sel_files) : IsFile(fs, sel_files[i])

----------------------------------------------------------------------------
(* Properties of the prompt commands (PromptSpec)                          *)

\* The block of the i-th entry: a blank line break, the header line that holds the
\* path, and the text the file holds on disk.
WantBlock(i) ==
    <<NL, "#", "#", "#", SP>> \o sel_files[i] \o <<SP, "#", "#", "#", NL>>
        \o fs[Key(sel_files[i])].content

\* The tree part of the prompt.
WantTree == IF show_tree THEN tree_out ELSE <<>>

RECURSIVE BlockStart(_)
\* Where the block of the i-th entry starts in the prompt.
BlockStart(i) ==
    IF i = 1 THEN Len(PromptPrefix) + Len(WantTree) + 1
    ELSE BlockStart(i - 1) + Len(WantBlock(i - 1))

\* P is the prefix, then the tree when it is shown, then the blocks of the entries
\* of sel_files in list order, and nothing else.
IsRendering(P) ==
    LET n == Len(sel_files)
    IN  /\ SubSeq(P, 1, Len(PromptPrefix)) = PromptPrefix
        /\ SubSeq(P, Len(PromptPrefix) + 1, Len(PromptPrefix) + Len(WantTree)) = WantTree
        /\ \A i \in 1..n :
              /\ SubSeq(P, BlockStart(i), BlockStart(i + 1) - 1) = WantBlock(i)
              /\ BlockStart(i) > Len(PromptPrefix)
              /\ \A j \in (i + 1)..n : BlockStart(i) < BlockStart(j)
        /\ Len(P) = BlockStart(n + 1) - 1

\* C12: the rendered prompt is the prefix, then the tree listing when the show-tree
\* flag is set, then one block per selected path in insertion order, each a header
\* line with the path followed by the file's text on disk; for [a, b] the block of
\* a lies strictly before the block of b and both lie after the prefix. Checked on
\* the prompt /c stores and copies and on the prompt /t measures.
C12_PromptLayout ==
    /\ prompt_cache # <<>> => (IsRendering(prompt_cache) /\ clipboard = prompt_cache)
    /\ \A k \in 1..Len(log) : log[k].tag = "Tokens" => IsRendering(log[k].of)

\* C12 witness: /c has rendered the list [a, b] with a tree listing.
C12_Witness ==
    /\ sel_files = <<PathA, PathB>>
    /\ show_tree
    /\ tree_out # <<>>
    /\ prompt_cache # <<>>
    /\ clipboard = prompt_cache

\* C19: when an entry of sel_files cannot be read, /c fails with the IO error of
\* the read and produces no prompt: prompt_cache, the clipboard, sel_files and the
\* log are as they were before the command.
C19_UnreadableFailsWhole ==
    [][ ( /\ Strip(input_value) = CmdC
          /\ input_value' = <<>>
          /\ \E i \in 1..Len(sel_files) : ~IsFile(fs, sel_files[i]) ) =>
        ( /\ prompt_cache' = prompt_cache
          /\ clipboard' = clipboard
          /\ sel_files' = sel_files
          /\ log' = log
          /\ escaped'
          /\ exc'.type = "OSError" ) ]_vars

\* C19 witness: /c was submitted with the directory d in the list after a; the
\* read of d raised, and nothing was cached or copied.
C19_Witness ==
    /\ escaped
    /\ exc = [type |-> "OSError", path |-> <<"d">>, line |-> 295]
    /\ sel_files = <<PathA, <<"d">>>>
    /\ prompt_cache = <<>>
    /\ clipboard = OldClipboard

----------------------------------------------------------------------------
(* Properties of the /p pipeline (Spec)                                    *)

Last(q) == q[Len(q)]

\* The picker responses that are not JSON.
NotJsonRaws == {"not json", "['a']"}

\* The picker responses that are a JSON array of strings.
StringArrayRaws == {"[]", "[\"a\"]", "[\"n\", \"a\"]", "[\"b\", \"d\"]"}

\* C2: the editor call is issued only after the picker call of the same run has
\* returned and its text has been parsed: it is the second call of the run, after
\* the picker call, made with the parsed value; while the picker call is in flight
\* no editor call exists. When the picker text is not JSON the run is aborted with
\* the format error that carries the raw text, shown in the log, and the run has
\* made no editor call and no filesystem change.
C2_EditorAfterPickerParsed ==
    /\ \A i \in 1..Len(calls) :
          calls[i] = "editor" =>
              /\ i = 2
              /\ calls[1] = "picker"
              /\ picker_raw # <<>>
              /\ JsonLoads(picker_raw[1]).ok
              /\ files = JsonLoads(picker_raw[1]).value
    /\ pc = "PickingFiles" => (calls = <<"picker">> /\ picker_raw = <<>>)
    /\ (picker_raw # <<>> /\ picker_raw[1] \in NotJsonRaws) =>
          /\ pc = "Aborted"
          /\ exc = [type |-> "ValueError", raw |-> picker_raw[1]]
          /\ Last(log) = [tag |-> "ERROR", exc |-> exc]
          /\ ~escaped
          /\ calls = <<"picker">>
          /\ touched = {}
          /\ fs = fs0

\* C2 witness: the picker answered "not json" and the run is aborted.
C2_Witness == picker_raw = <<"not json">> /\ pc = "Aborted" /\ calls = <<"picker">>

\* C3: the picker stage succeeds only for a JSON array of strings: for every other
\* response the run is aborted with the format error and no editor call is made.
C3_OnlyStringArraySucceeds ==
    (picker_raw # <<>> /\ picker_raw[1] \notin StringArrayRaws) =>
        /\ pc = "Aborted"
        /\ exc.type = "ValueError"
        /\ calls = <<"picker">>

\* The listing's target can be written in filesystem f.
Writable(f, p) == ~MkdirRaises(f, Parent(PathOf(p))) /\ ~WriteRaises(f, PathOf(p))

\* Neither path lies in a directory the other names.
Unrelated(p, q) ==
    /\ Key(PathOf(p)) \notin Chain(Parent(Key(PathOf(q))))
    /\ Key(PathOf(q)) \notin Chain(Parent(Key(PathOf(p))))

\* C4: a finished run has one outcome per parsed listing, in parse order, each
\* written or failed. A failure never stops the loop: a listing whose target is
\* unrelated to the other targets is written exactly if its target could be written
\* when the run started, whatever happened to the listings before it; and the file
\* of the last written listing of a path holds that listing's content. For
\* [b (not writable), n (writable)] the outcomes are [failed, written].
C4_OneOutcomePerListing ==
    pc = "Done" =>
        LET ls == ParseListings(editor_out[1])
        IN  /\ Len(outcomes) = Len(ls)
            /\ \A i \in 1..Len(ls) :
                  /\ outcomes[i].path = ls[i].path
                  /\ outcomes[i].status \in {"written", "failed"}
                  /\ (\A j \in 1..Len(ls) : j # i => Unrelated(ls[i].path, ls[j].path)) =>
                        (outcomes[i].status = "written" <=> Writable(fs0, ls[i].path))
                  /\ ( /\ outcomes[i].status = "written"
                       /\ \A j \in (i+1)..Len(ls) : Key(PathOf(ls[j].path)) # Key(PathOf(ls[i].path)) ) =>
                        /\ IsFile(fs, PathOf(ls[i].path))
                        /\ ReadText(fs, PathOf(ls[i].path)) = ls[i].content

\* C4 witness: the first listing failed and the second was written.
C4_Witness ==
    /\ pc = "Done"
    /\ editor_out = <<RenderDoc(<<ListingItem(PathB, <<"Z">>), ListingItem(<<"n">>, ContXY)>>)>>
    /\ outcomes = <<[path |-> PathB, status |-> "failed"], [path |-> <<"n">>, status |-> "written"]>>
    /\ IsFile(fs, <<"n">>)

\* C5: a run that is picking, editing or aborted has changed nothing in the
\* filesystem (no file written, no directory made): the filesystem changes only
\* when the editor call has returned and the listings are applied.
C5_NoWriteBeforeApplying ==
    /\ pc \in {"PickingFiles", "Editing", "Aborted"} => (fs = fs0 /\ touched = {})
    /\ (pc # "Idle" /\ fs # fs0) => (pc = "Done" /\ editor_out # <<>> /\ calls = <<"picker", "editor">>)

\* C5 witness: the editor call failed after the contents were loaded, for a picker
\* result that names a missing file; the run is aborted.
C5_Witness ==
    /\ pc = "Aborted"
    /\ exc = TransportError("editor")
    /\ picker_raw = <<"[\"n\", \"a\"]">>
    /\ ~Exists(fs, <<"n">>)

\* C6: a failed generation call, at the picker or at the editor stage, ends the run
\* Aborted with the error reported in the same way: caught and shown in the log.
C6_GenerationFailureShown ==
    (pc = "Aborted" /\ exc.type = "TransportError") =>
        /\ ~escaped
        /\ log # <<>>
        /\ Last(log) = [tag |-> "ERROR", exc |-> exc]

\* C13: at most one /p run is in flight. A run starts only from a state in which
\* no run is picking or editing, whether its "/p" was submitted then or had been
\* submitted while the previous run was in flight; a run in flight has issued one
\* picker call and at most one editor call.
C13_OneRunInFlight ==
    [][ /\ runs' # runs =>
              /\ pc \in {"Idle", "Done", "Aborted"}
              /\ pc' = "PickingFiles"
              /\ runs' = runs + 1
        /\ pending' > pending => pc' = pc
        /\ pc' \in {"PickingFiles", "Editing"} =>
              calls' \in {<<"picker">>, <<"picker", "editor">>} ]_vars

\* C13 witness: a second /p was submitted during the first run; the first run has
\* reached Done and the second has not started.
C13_Witness == pending = 1 /\ runs = 1 /\ pc = "Done"

\* C14: once the editor call has returned text, the run is Done and never Aborted:
\* no exception is raised, every parsed listing has been attempted (one outcome
\* each), also when every write failed; a text without listings ends Done with an
\* empty outcome list, the filesystem untouched and no error shown.
C14_EditorTextEndsDone ==
    editor_out # <<>> =>
        LET ls == Parsed[editor_out[1]]
        IN  /\ pc = "Done"
            /\ ~escaped
            /\ exc = NoExc
            /\ Len(outcomes) = Len(ls)
            /\ ls = <<>> =>
                  /\ outcomes = <<>>
                  /\ fs = fs0
                  /\ Last(log) = [tag |-> "Output", text |-> editor_out[1]]

\* C14 witness: both listings of the response failed (b may not be written, d is a
\* directory) and the run is Done.
C14_Witness ==
    /\ pc = "Done"
    /\ editor_out = <<RenderDoc(<<ListingItem(PathB, <<"Z">>), ListingItem(<<"d">>, ContX)>>)>>
    /\ outcomes = <<[path |-> PathB, status |-> "failed"], [path |-> <<"d">>, status |-> "failed"]>>

\* C14 witness: the response held prose only; the run is Done with no outcome.
C14_WitnessNoListing ==
    /\ pc = "Done"
    /\ editor_out = <<RenderDoc(<<ProseItem(<<"h", "i", SP, "a">>)>>)>>
    /\ outcomes = <<>>

\* The listings of ls that name the file of listing i and were written.
WrittenFor(ls, i) ==
    { j \in 1..Len(ls) : /\ Key(PathOf(ls[j].path)) = Key(PathOf(ls[i].path))
                         /\ outcomes[j].status = "written" }

\* C18: listings that name the same path are applied in encounter order, one
\* outcome per listing and none merged or dropped; each write replaces the whole
\* file, so after the run the file holds exactly the content of the last listing
\* of that path whose write succeeded; a path whose writes all failed is as it was
\* before the run.
C18_LastWriteWins ==
    pc = "Done" =>
        LET ls == Parsed[editor_out[1]]
        IN  /\ Len(outcomes) = Len(ls)
            /\ \A i \in 1..Len(ls) :
                  LET p == PathOf(ls[i].path)
                  IN  /\ outcomes[i].path = ls[i].path
                      /\ WrittenFor(ls, i) # {} =>
                            /\ IsFile(fs, p)
                            /\ ReadText(fs, p) = ls[Max(WrittenFor(ls, i))].content
                      /\ WrittenFor(ls, i) = {} =>
                            /\ Exists(fs, p) <=> Exists(fs0, p)
                            /\ Key(p) \in DOMAIN fs0 => fs[Key(p)] = fs0[Key(p)]

\* C18 witness: the response named n twice, with a failed listing of b between;
\* all three have an outcome and n holds the content of the second listing of n.
C18_Witness ==
    /\ pc = "Done"
    /\ Len(Parsed[editor_out[1]]) = 3
    /\ outcomes = <<[path |-> <<"n">>, status |-> "written"],
                    [path |-> PathB, status |-> "failed"],
                    [path |-> <<"n">>, status |-> "written"]>>
    /\ ReadText(fs, <<"n">>) = ContXY

\* C10: the editor payload has one entry per path of the picker result, in order:
\* the content of a file that exists, and an empty content for a path whose file does
\* not exist.
C10_PayloadHasEveryPickedPath ==
    (pc = "Editing" /\ files.type = "list") =>
        payload = JoinWith(<<NL, NL>>,
                           [i \in 1..Len(files.items) |-> PayloadEntry(fs, files.items[i].val)])

====
